---- MODULE Spec2Model ----
(***************************************************************************)
(* twisted.enterprise.adbapi: ConnectionPool and the units of work it runs *)
(* in the threads of its thread pool, one DB-API connection per thread.    *)
(*                                                                         *)
(* The driver (dbapi.connect, Connection, Cursor) is an external           *)
(* collaborator: connect(), cursor(), execute(), fetchall(), Cursor.close()*)
(* and commit() may raise, chosen nondeterministically; Connection.close() *)
(* and rollback() return normally.  The thread pool, the reactor's event   *)
(* triggers and the Deferred plumbing are not part of adbapi.py; they are  *)
(* modelled from their documented contract.                                *)
(***************************************************************************)
EXTENDS Naturals, Sequences, FiniteSets

\* ---------------------------------------------------------------- bounds
MaxUnits   == 2     \* units of work submitted in one behaviour
MaxConns   == 3     \* connections the driver hands out in one behaviour
MaxStarts  == 2     \* calls of start() that start the thread pool

\* ------------------------------------------------------ program constants
DefaultMin == 3     \* ConnectionPool.min
DefaultMax == 5     \* ConnectionPool.max

Absent      == 0                    \* keyword not passed to the constructor
\* The pools whose work is followed: cp_min is left out (the default, above
\* either cp_max, so the pair is clamped), since no step of a pool reads min;
\* every pair of keywords is constructed under ConstructSpec.
CpMinValues == {Absent}             \* cp_min values supplied
CpMaxValues == {1, 2}               \* cp_max values supplied
Units    == 1..MaxUnits
Conns    == 1..MaxConns
\* thread identities: a ThreadPool(min, max) runs at most max threads
Threads  == {t \in 1..DefaultMax : \E mx \in CpMaxValues : t <= mx}
Kinds    == {"query", "operation", "interaction"}

VARIABLES
    cfg,          \* [min, max, openfun] as the constructor leaves them
    running,      \* ConnectionPool.running
    shutdownID,   \* "unset" (attribute missing) | "None" | "trigger"
    startID,      \* "None" | "trigger"
    connections,  \* ConnectionPool.connections: thread id -> connection (0: no entry)
    hooks,        \* 'during shutdown' triggers registered with the reactor
    tp,           \* the thread pool: [started, joined, starts, q]
    units,        \* submitted units of work and their futures
    workers,      \* per thread: position in its unit of work and its locals
    conns,        \* per connection: [opened, closed, users]
    ctl,          \* controller: "idle", or the call ("close" | "finalClose") that is
                  \* inside finalClose(), waiting in threadpool.stop()
    hist          \* what the caller has seen: [err] how its last call ended;
                  \* [closeCalled] close() was called; [closed] finalClose() has
                  \* returned; [closes] close() calls that returned (up to 2);
                  \* [again] its last call was a start() on a running pool

vars == <<cfg, running, shutdownID, startID, connections, hooks, tp, units,
          workers, conns, ctl, hist>>

\* ------------------------------------------------------------ construction
Min2(a, b) == IF a < b THEN a ELSE b
Max2(a, b) == IF a > b THEN a ELSE b

\* __init__, lines 84-90: the class defaults unless the keyword is passed
SuppliedMin(cp_min) == IF cp_min = Absent THEN DefaultMin ELSE cp_min
SuppliedMax(cp_max) == IF cp_max = Absent THEN DefaultMax ELSE cp_max

\* __init__, lines 100-101
ClampMin(mn, mx) == Min2(mn, mx)
ClampMax(mn, mx) == Max2(mn, mx)

\* an __init__ without lines 100-101
ConstructUnclamped(cp_min, cp_max, cp_openfun) ==
    [min |-> SuppliedMin(cp_min), max |-> SuppliedMax(cp_max), openfun |-> cp_openfun]

Construct(cp_min, cp_max, cp_openfun) ==
    LET mn == ClampMin(SuppliedMin(cp_min), SuppliedMax(cp_max))
        mx == ClampMax(mn, SuppliedMax(cp_max))
    IN  [min |-> mn, max |-> mx, openfun |-> cp_openfun]

Pending == <<"pending", "">>

\* A unit of work as the caller sees it: its Deferred, and whether it fired
\* its callback ("ok") or its errback ("err").
NewUnit == [state |-> "new", fired |-> 0, future |-> "pending"]

\* A thread's locals while it runs a unit of work, and what the driver saw of it.
\* [cursor] is the Transaction's _cursor ("null", "open" or "closed"), [call] the
\* outcome of the last disconnect() the running user function called.
IdleWorker == [pc |-> "idle", unit |-> 0, kind |-> "none", conn |-> 0, path |-> "none",
               cause |-> "none", commits |-> 0, rollbacks |-> 0, res |-> Pending,
               cursor |-> "null", call |-> "none"]

NewConn == [opened |-> FALSE, closed |-> 0, users |-> {}]

Init ==
    /\ \E cp_min \in CpMinValues, cp_max \in CpMaxValues, cp_openfun \in BOOLEAN :
          cfg = Construct(cp_min, cp_max, cp_openfun)
    /\ running = 0
    /\ shutdownID = "unset"
    /\ startID = "trigger"
    /\ connections = [t \in Threads |-> 0]
    /\ hooks = 0
    /\ tp = [started |-> FALSE, joined |-> FALSE, starts |-> 0, q |-> <<>>]
    /\ units = [u \in Units |-> NewUnit]
    /\ workers = [t \in Threads |-> IdleWorker]
    /\ conns = [c \in Conns |-> NewConn]
    /\ ctl = "idle"
    /\ hist = [err |-> "none", closeCalled |-> FALSE, closed |-> FALSE, closes |-> 0,
               again |-> FALSE]

\* The lifecycle state the specification names; the code keeps only `running`.
Lifecycle ==
    IF running = 1 THEN "Running"
    ELSE IF hist.closed THEN "Stopped" ELSE "Created"

\* ------------------------------------------------------------ thread pool
\* threadpool.start(): Created -> Running; a stopped executor stays stopped.
TpStart(p) ==
    [p EXCEPT !.started = IF p.joined THEN p.started ELSE TRUE,
              !.starts  = p.starts + 1]

\* threadpool.stop(): no further submissions; returns once the workers drained.
TpStop(p) == [p EXCEPT !.joined = TRUE]

TpAccepts(p) == ~p.joined

TpCallInThread(p, call) == IF TpAccepts(p) THEN [p EXCEPT !.q = Append(p.q, call)] ELSE p

TpDrained ==
    /\ \A t \in Threads : workers[t].pc = "idle"
    /\ tp.started => tp.q = <<>>

\* ------------------------------------------------------------------ start
\* start() without its `if not self.running` test
StartPoolUnguarded ==
    /\ tp' = TpStart(tp)
    /\ hooks' = hooks + 1
    /\ shutdownID' = "trigger"
    /\ running' = 1

\* ConnectionPool.start, lines 122-128
StartPool ==
    IF running = 0
    THEN /\ tp' = TpStart(tp)
         /\ hooks' = hooks + 1
         /\ shutdownID' = "trigger"
         /\ running' = 1
    ELSE UNCHANGED <<tp, hooks, shutdownID, running>>

Returned == [hist EXCEPT !.err = "none", !.again = FALSE]

start ==
    /\ ctl = "idle"
    /\ running = 0 => tp.starts < MaxStarts
    /\ StartPool
    /\ hist' = [Returned EXCEPT !.again = running = 1]
    /\ UNCHANGED <<cfg, startID, connections, units, workers, conns, ctl>>

\* ------------------------------------------------------------- submission
\* _deferToThread, lines 311-314, behind runQuery / runOperation / runInteraction
DeferToThread(u, k) ==
    /\ units' = [units EXCEPT ![u] = [@ EXCEPT
                    !.state = IF TpAccepts(tp) THEN "queued" ELSE "rejected"]]
    /\ tp' = TpCallInThread(tp, [unit |-> u, kind |-> k])

NextUnit == CHOOSE u \in Units : units[u].state = "new" /\ \A v \in 1..(u-1) : units[v].state # "new"

Submit(k) ==
    /\ ctl = "idle"
    /\ \E u \in Units : units[u].state = "new"
    /\ DeferToThread(NextUnit, k)
    /\ hist' = Returned
    /\ UNCHANGED <<cfg, running, shutdownID, startID, connections, hooks,
                   workers, conns, ctl>>

\* ------------------------------------------------------------------ close
\* close(), lines 199-205: `self.shutdownID` is set by start() alone, so reading
\* it before start() raises AttributeError; otherwise the triggers are removed
\* and finalClose() is entered (line 209: threadpool.stop()).
close ==
    /\ ctl = "idle"
    /\ IF shutdownID = "unset"
       THEN /\ hist' = [Returned EXCEPT !.err = "AttributeError",
                                               !.closeCalled = TRUE]
            /\ UNCHANGED <<shutdownID, startID, hooks, tp, ctl>>
       ELSE /\ hooks' = IF shutdownID = "trigger" THEN hooks - 1 ELSE hooks
            /\ shutdownID' = "None"
            /\ startID' = "None"
            /\ tp' = TpStop(tp)
            /\ ctl' = "close"
            /\ hist' = [Returned EXCEPT !.closeCalled = TRUE]
    /\ UNCHANGED <<cfg, running, connections, units, workers, conns>>

\* finalClose(), line 209, called by the shutdown trigger or directly
finalClose ==
    /\ ctl = "idle"
    /\ tp' = TpStop(tp)
    /\ ctl' = "finalClose"
    /\ hist' = Returned
    /\ UNCHANGED <<cfg, running, shutdownID, startID, connections, hooks,
                   units, workers, conns>>

\* _close, line 256, for every value of self.connections (lines 211-212)
CloseAll(cs, reg) ==
    [c \in Conns |-> IF \E t \in Threads : reg[t] = c
                     THEN [cs[c] EXCEPT !.closed = @ + 1] ELSE cs[c]]

\* finalClose() without its last line
ClearRegistryForgotten(reg) == reg

\* self.connections.clear(), line 213
ClearRegistry(reg) == [t \in Threads |-> 0]

\* a finalClose() that goes on to close the connections without stopping the
\* thread pool first
StopSkipped == TRUE

\* finalClose(), line 209: self.threadpool.stop() comes first, and the lines
\* after it run once it has returned.
StopReturned == TpDrained

\* finalClose(), lines 210-213, once threadpool.stop() has returned
FinalCloseReturn ==
    /\ ctl \in {"close", "finalClose"}
    /\ StopReturned
    /\ running' = 0
    /\ conns' = CloseAll(conns, connections)
    /\ connections' = ClearRegistry(connections)
    /\ ctl' = "idle"
    /\ hist' = [hist EXCEPT !.closed = TRUE,
                            !.closes = IF ctl = "close" THEN Min2(@ + 1, 2) ELSE @]
    /\ UNCHANGED <<cfg, shutdownID, startID, hooks, tp, units, workers>>

\* ---------------------------------------------------------------- workers
\* a thread pool built without the pool's max
PoolThreadsUnbounded == Threads

\* threadpool.ThreadPool(self.min, self.max), line 110: at most max threads
PoolThreads == {t \in Threads : t <= cfg.max}

\* A worker thread of the pool takes the next queued call.
Take(t) ==
    /\ tp.started
    /\ t \in PoolThreads
    /\ workers[t].pc = "idle"
    /\ tp.q # <<>>
    /\ LET call == Head(tp.q) IN
       /\ tp' = [tp EXCEPT !.q = Tail(tp.q)]
       /\ workers' = [workers EXCEPT ![t] = [IdleWorker EXCEPT !.pc = "connect",
                                      !.unit = call.unit, !.kind = call.kind]]
       /\ units' = [units EXCEPT ![call.unit] = [@ EXCEPT !.state = "running"]]
    /\ UNCHANGED <<cfg, running, shutdownID, startID, connections, hooks,
                   conns, ctl, hist>>

\* a lookup that is not keyed on the calling thread: any registered connection
RegistryGetShared(reg, tid) ==
    IF reg[tid] # 0 THEN reg[tid]
    ELSE IF \E o \in Threads : reg[o] # 0
         THEN reg[CHOOSE o \in Threads : reg[o] # 0]
         ELSE 0

\* connect(), line 225: self.connections.get(tid)
RegistryGet(reg, tid) == reg[tid]

\* connect(), line 234: self.connections[tid] = conn
RegistryPut(reg, tid, c) == [reg EXCEPT ![tid] = c]

\* dbapi.connect() hands out a connection object it never handed out before.
FreshConn == CHOOSE c \in Conns : ~conns[c].opened /\ \A d \in 1..(c-1) : conns[d].opened

Fails(t, err) ==
    [workers[t] EXCEPT !.pc = "post", !.res = <<"err", err>>, !.cause = err]

\* a connect() that stores the connection before it calls openfun
OpenFailedStored(reg, tid, c) == RegistryPut(reg, tid, c)

\* connect(), lines 231-234: openfun(conn) raises before
\* self.connections[tid] = conn is reached
OpenFailed(reg, tid, c) == reg

\* connect(), lines 224-235, as the first statement of _runInteraction (259),
\* _runQuery (270) and _runOperation (283): outside their try block.
Connect(t) ==
    /\ workers[t].pc = "connect"
    /\ LET found == RegistryGet(connections, t) IN
       IF found # 0
       THEN /\ workers' = [workers EXCEPT ![t] = [@ EXCEPT !.pc = "body", !.conn = found]]
            /\ conns' = [conns EXCEPT ![found] = [@ EXCEPT !.users = @ \cup {t}]]
            /\ UNCHANGED connections
       ELSE \/ \* dbapi.connect raises (line 231)
               /\ workers' = [workers EXCEPT ![t] = Fails(t, "connect")]
               /\ UNCHANGED <<conns, connections>>
            \/ \* dbapi.connect returns a connection, openfun raises (line 233)
               /\ cfg.openfun
               /\ \E c \in Conns : ~conns[c].opened
               /\ conns' = [conns EXCEPT ![FreshConn] = [@ EXCEPT !.opened = TRUE]]
               /\ workers' = [workers EXCEPT ![t] = Fails(t, "openfun")]
               /\ connections' = OpenFailed(connections, t, FreshConn)
            \/ \* the connection is opened and registered (line 234)
               /\ \E c \in Conns : ~conns[c].opened
               /\ LET c == FreshConn IN
                  /\ conns' = [conns EXCEPT ![c] = [@ EXCEPT !.opened = TRUE, !.users = {t}]]
                  /\ connections' = RegistryPut(connections, t, c)
                  /\ workers' = [workers EXCEPT ![t] = [@ EXCEPT !.pc = "body", !.conn = c]]
    /\ UNCHANGED <<cfg, running, shutdownID, startID, hooks, tp, units, ctl, hist>>

\* Where the driver raises in _runQuery: "none" when no call raises before commit.
QueryFaults == {"none", "cursor", "execute", "fetchall", "curs_close"}
\* ... in _runOperation, which never calls fetchall
OperationFaults == {"none", "cursor", "execute", "curs_close"}
\* ... in _runInteraction: Transaction() opens the cursor, then the user
\* function runs, then trans.close()
InteractionFaults == {"none", "cursor", "userfn", "trans_close"}
\* How the user function ends: it returns and trans.close() returns ("none"),
\* it raises ("userfn"), or it returns and trans.close() raises.
UserEnds == InteractionFaults \ {"cursor"}
\* The argument of a disconnect() call: a connection, or None (0).
DisconnectArgs == {0} \cup Conns

\* _runQuery, lines 270-280: conn.cursor() is outside the try block, so its
\* exception propagates untouched; execute / fetchall / curs.close() raise
\* inside it and reach the except clause; otherwise commit is next.
RunQueryPath(fault) ==
    CASE fault = "cursor" -> "raise"
      [] fault \in {"execute", "fetchall", "curs_close"} -> "rollback"
      [] OTHER -> "commit"

\* _runOperation, lines 283-291
RunOperationPath(fault) ==
    CASE fault = "cursor" -> "raise"
      [] fault \in {"execute", "curs_close"} -> "rollback"
      [] OTHER -> "commit"

\* _runInteraction, lines 259-267: Transaction(self, self.connect()) is outside
\* the try block; the user function and trans.close() are inside it.
RunInteractionPath(fault) ==
    CASE fault = "cursor" -> "raise"
      [] fault \in {"userfn", "trans_close"} -> "rollback"
      [] OTHER -> "commit"

\* a disconnect() without the test of line 245
DisconnectOkUnchecked(reg, tid, c) == TRUE

\* disconnect(conn), lines 244-249, called in thread tid
DisconnectOk(reg, tid, c) == c = reg[tid]
DisconnectConns(cs, reg, tid, c) ==
    IF DisconnectOk(reg, tid, c) /\ c # 0 THEN [cs EXCEPT ![c] = [@ EXCEPT !.closed = @ + 1]] ELSE cs
DisconnectRegistry(reg, tid, c) ==
    IF DisconnectOk(reg, tid, c) /\ c # 0 THEN [reg EXCEPT ![tid] = 0] ELSE reg

\* The statements of the unit of work up to, not including, commit / rollback.
Body(t) ==
    /\ workers[t].pc = "body"
    /\ LET k == workers[t].kind
           c == workers[t].conn
           Go(path, fault) ==
               workers' = [workers EXCEPT ![t] =
                   IF path = "raise" THEN Fails(t, fault)
                   ELSE [@ EXCEPT !.pc = "finish", !.path = path, !.cause = fault]]
       IN
       \/ /\ k = "query"
          /\ \E fault \in QueryFaults : Go(RunQueryPath(fault), fault)
          /\ UNCHANGED <<conns, connections>>
       \/ /\ k = "operation"
          /\ \E fault \in OperationFaults : Go(RunOperationPath(fault), fault)
          /\ UNCHANGED <<conns, connections>>
       \/ \* Transaction(self, conn), lines 37-44: reopen() opens the cursor
          /\ k = "interaction"
          /\ \E fault \in InteractionFaults \ {"userfn", "trans_close"} :
                workers' = [workers EXCEPT ![t] =
                   IF RunInteractionPath(fault) = "raise" THEN Fails(t, fault)
                   ELSE [@ EXCEPT !.pc = "user", !.cursor = "open"]]
          /\ UNCHANGED <<conns, connections>>
    /\ UNCHANGED <<cfg, running, shutdownID, startID, hooks, tp, units,
                   ctl, hist>>

\* The user function, running in thread t, calls pool.disconnect(d), lines
\* 244-249; the "wrong connection for thread" exception ends the user function.
UserDisconnect(t, d) ==
    /\ workers[t].pc = "user"
    /\ conns' = DisconnectConns(conns, connections, t, d)
    /\ connections' = DisconnectRegistry(connections, t, d)
    /\ workers' = [workers EXCEPT ![t] =
          IF DisconnectOk(connections, t, d)
          THEN [@ EXCEPT !.call = IF d # 0 THEN "disconnected" ELSE "disconnect(None)"]
          ELSE [@ EXCEPT !.call = "none", !.pc = "finish",
                         !.path = "rollback", !.cause = "ownership"]]
    /\ UNCHANGED <<cfg, running, shutdownID, startID, hooks, tp, units, ctl, hist>>

\* Transaction.reopen(), lines 42-44, called by the user function: the cursor
\* is closed (which may raise), then _cursor is assigned the new cursor, unless
\* cursor() raises; either exception ends the user function.
ReopenCursor(outcome, cursor) ==
    CASE outcome = "close raises" -> cursor
      [] outcome = "cursor raises" -> "closed"
      [] OTHER -> "open"

ReopenOutcomes == {"reopened", "close raises", "cursor raises"}

UserReopen(t) ==
    /\ workers[t].pc = "user"
    /\ \E outcome \in ReopenOutcomes :
          workers' = [workers EXCEPT ![t] =
             IF outcome = "reopened"
             THEN [@ EXCEPT !.cursor = ReopenCursor(outcome, @)]
             ELSE [@ EXCEPT !.call = "none", !.cursor = ReopenCursor(outcome, @),
                            !.pc = "finish", !.path = "rollback", !.cause = "userfn"]]
    /\ UNCHANGED <<cfg, running, shutdownID, startID, connections, hooks, tp, units,
                   conns, ctl, hist>>

\* The user function returns or raises (line 261); after a return,
\* trans.close() closes the cursor (line 262).
UserEnd(t) ==
    /\ workers[t].pc = "user"
    /\ \E fault \in UserEnds :
          workers' = [workers EXCEPT ![t] =
             [@ EXCEPT !.pc = "finish", !.path = RunInteractionPath(fault),
                       !.cause = fault, !.call = "none",
                       !.cursor = IF fault = "none" THEN "closed" ELSE @]]
    /\ UNCHANGED <<cfg, running, shutdownID, startID, connections, hooks, tp, units,
                   conns, ctl, hist>>

\* What the work function returns: fetchall()'s rows (line 277), None
\* (_runOperation), the user function's result (line 264).
ReturnValue(k) ==
    CASE k = "query" -> <<"ok", "rows">>
      [] k = "operation" -> <<"ok", "None">>
      [] OTHER -> <<"ok", "result">>

\* an except clause that ends without `raise`: the call returns None
ReraiseSwallowed(cause) == <<"ok", "None">>

\* `except: rollback(); raise` (lines 265-267, 278-280, 289-291): the exception
\* being handled is re-raised.
Reraise(cause) == <<"err", cause>>

\* a success path that returns without conn.commit()
CommitReturnsForgotten(w) ==
    [w EXCEPT !.pc = "post", !.res = ReturnValue(w.kind)]

\* conn.commit() returns, then `return result` (lines 263-264, 276-277, 288)
CommitReturns(w) ==
    [w EXCEPT !.commits = @ + 1, !.pc = "post", !.res = ReturnValue(w.kind)]

\* conn.commit() raises inside the try block: on to the except clause
CommitRaises(w) ==
    [w EXCEPT !.commits = @ + 1, !.path = "rollback", !.cause = "commit"]

\* an except clause that re-raises without conn.rollback()
ExceptClauseNoRollback(w) ==
    [w EXCEPT !.pc = "post", !.res = Reraise(w.cause)]

\* the except clause: conn.rollback(), then raise
ExceptClause(w) ==
    [w EXCEPT !.rollbacks = @ + 1, !.pc = "post", !.res = Reraise(w.cause)]

\* commit, then return; or the except clause: rollback, then re-raise.
Finish(t) ==
    /\ workers[t].pc = "finish"
    /\ IF workers[t].path = "commit"
       THEN \/ workers' = [workers EXCEPT ![t] = CommitReturns(workers[t])]
            \/ workers' = [workers EXCEPT ![t] = CommitRaises(workers[t])]
       ELSE workers' = [workers EXCEPT ![t] = ExceptClause(workers[t])]
    /\ UNCHANGED <<cfg, running, shutdownID, startID, connections, hooks,
                   tp, units, conns, ctl, hist>>

\* threads._putResultInDeferred: the Deferred fires with what the call returned
\* or raised, and the thread takes the next call.
Post(t) ==
    /\ workers[t].pc = "post"
    /\ LET u == workers[t].unit IN
       units' = [units EXCEPT ![u] = [@ EXCEPT !.state = "done", !.fired = @ + 1,
                                                !.future = workers[t].res[1]]]
    /\ workers' = [workers EXCEPT ![t] = IdleWorker]
    /\ UNCHANGED <<cfg, running, shutdownID, startID, connections, hooks,
                   tp, conns, ctl, hist>>

Next ==
    \/ start
    \/ \E k \in Kinds : Submit(k)
    \/ close
    \/ finalClose
    \/ FinalCloseReturn
    \/ \E t \in Threads : Take(t)
    \/ \E t \in Threads : Connect(t)
    \/ \E t \in Threads : Body(t)
    \/ \E t \in Threads, d \in DisconnectArgs : UserDisconnect(t, d)
    \/ \E t \in Threads : UserReopen(t)
    \/ \E t \in Threads : UserEnd(t)
    \/ \E t \in Threads : Finish(t)
    \/ \E t \in Threads : Post(t)

Spec == Init /\ [][Next]_vars

\* ================================================================ claims
NoEntry == [t \in Threads |-> 0]
AtPost(t) == workers[t].pc = "post"

\* C1: a unit of work about to resolve its future with success had commit
\* invoked exactly once and rollback never.
C1_SuccessCommitsOnce ==
    \A t \in Threads :
        (AtPost(t) /\ workers[t].res[1] = "ok")
            => (workers[t].commits = 1 /\ workers[t].rollbacks = 0)

C1_Witness ==
    \E t \in Threads :
        /\ AtPost(t) /\ workers[t].res = <<"ok", "rows">>
        /\ workers[t].commits = 1

\* C2: a unit of work that fails because execute, fetchall or the user
\* function raised had rollback invoked exactly once and commit never.
C2_FailureRollsBackOnce ==
    \A t \in Threads :
        (AtPost(t) /\ workers[t].cause \in {"execute", "fetchall", "userfn"})
            => (workers[t].res[1] = "err" /\ workers[t].rollbacks = 1
                /\ workers[t].commits = 0)

C2_Witness ==
    \E t \in Threads :
        /\ AtPost(t) /\ workers[t].kind = "interaction"
        /\ workers[t].cause = "userfn" /\ workers[t].rollbacks = 1

\* C3: no connection is ever used by, or registered for, two threads; a unit
\* of work run by a thread that has a registry entry uses that entry's
\* connection.
C3_Affinity ==
    /\ [](/\ \A c \in Conns : Cardinality(conns[c].users) <= 1
          /\ \A t1, t2 \in Threads :
                (t1 # t2 /\ connections[t1] # 0) => connections[t1] # connections[t2]
          /\ \A t1, t2 \in Threads :
                (t1 # t2 /\ workers[t1].conn # 0) => workers[t1].conn # workers[t2].conn)
    /\ [][\A t \in Threads :
            (Connect(t) /\ connections[t] # 0)
                => (workers'[t].conn = connections[t] /\ connections' = connections)]_vars

C3_Witness ==
    /\ \A t \in Threads : workers[t].pc = "body" /\ connections[t] = workers[t].conn
    /\ Cardinality({connections[t] : t \in Threads}) = Cardinality(Threads)
    /\ Cardinality(Threads) > 1

\* C4: when close() returns, every connection the pool opened has had close()
\* invoked exactly once and the registry is empty.
C4_CloseClosesAll ==
    [][(FinalCloseReturn /\ ctl = "close")
          => (/\ connections' = NoEntry
              /\ \A c \in Conns : conns'[c].opened => conns'[c].closed = 1)]_vars

\* C5: a close() after a close() that returned raises nothing, closes no
\* connection again and leaves the pool stopped with an empty registry.
C5_CloseIdempotent ==
    /\ [][(close /\ hist.closes >= 1) => (hist'.err = "none" /\ ctl' = "close")]_vars
    /\ [][(FinalCloseReturn /\ ctl = "close" /\ hist.closes >= 1)
            => (conns' = conns /\ running' = 0 /\ connections' = NoEntry)]_vars

C5_Witness ==
    /\ hist.closes = 2 /\ ctl = "idle" /\ hist.err = "none"
    /\ \E c \in Conns : conns[c].closed = 1

\* C6: close() and finalClose() called on a pool that was never started raise
\* nothing and leave it stopped with an empty registry.
C6_CloseSafeBeforeStart ==
    /\ [][((close \/ finalClose) /\ Lifecycle = "Created")
            => (hist'.err = "none" /\ ctl' # "idle")]_vars
    /\ [][(FinalCloseReturn /\ Lifecycle = "Created")
            => (running' = 0 /\ connections' = NoEntry)]_vars

\* C7: a submission made after close() was called is not accepted into the
\* thread pool's queue.
C7_NoSubmitAfterClose ==
    [][\A k \in Kinds :
          (Submit(k) /\ hist.closeCalled)
              => (units'[NextUnit].state = "rejected" /\ tp'.q = tp.q)]_vars

\* C8: once finalClose() has marked the pool stopped it never runs again.
C8_StoppedIsTerminal ==
    [][(hist.closed /\ running = 0) => running' = 0]_vars

\* C9: start() on a running pool changes nothing: the thread pool is not
\* started again and no shutdown trigger is added.
C9_StartIdempotent ==
    [][(start /\ running = 1)
          => UNCHANGED <<cfg, running, shutdownID, startID, connections, hooks, tp,
                         units, workers, conns, ctl>>]_vars

C9_Witness == hist.again /\ running = 1 /\ hooks = 1 /\ tp.starts = 1

ReactorStartup == start /\ tp.starts = 0

\* A worker thread that can take a step takes it; a user function ends.
WorkerFairness(t) ==
    /\ WF_vars(Take(t)) /\ WF_vars(Connect(t)) /\ WF_vars(Body(t))
    /\ WF_vars(UserEnd(t)) /\ WF_vars(Finish(t)) /\ WF_vars(Post(t))

FairSpec ==
    /\ Spec
    /\ WF_vars(ReactorStartup)
    /\ WF_vars(FinalCloseReturn)
    /\ \A t \in Threads : WorkerFairness(t)

\* C11: every unit of work the pool accepted, whether before start(), while
\* running or still queued at close(), eventually runs and fires its future.
C11_NoUnitDropped ==
    \A u \in Units :
        (units[u].state = "queued") ~> (units[u].state = "done" /\ units[u].fired = 1)

\* The driver calls a unit of work makes on the connection it acquired.
DriverCalls == {"cursor", "execute", "fetchall", "curs_close", "trans_close", "commit"}

\* C12: a unit of work in which a driver call on the acquired connection
\* raised fails, and rollback was invoked on the connection before the
\* failure is handed to the future.
C12_DriverFaultRollsBack ==
    \A t \in Threads :
        (AtPost(t) /\ workers[t].conn # 0 /\ workers[t].cause \in DriverCalls)
            => (workers[t].res = <<"err", workers[t].cause>> /\ workers[t].rollbacks >= 1)

Opened == {c \in Conns : conns[c].opened}
Registered == {t \in Threads : connections[t] # 0}

OwnershipError(t) ==
    /\ workers'[t].pc = "finish" /\ workers'[t].cause = "ownership"
    /\ conns' = conns /\ connections' = connections

\* What a disconnect(d) of the thread's registered connection d does.
Released(t, d) ==
    /\ workers'[t].pc = "user"
    /\ conns' = [conns EXCEPT ![d] = [@ EXCEPT !.closed = @ + 1]]
    /\ connections' = [connections EXCEPT ![t] = 0]

\* C14 as stated: disconnect(d) raises the ownership error and changes nothing
\* unless d is the connection registered for the calling thread; then d is
\* closed once and only the caller's entry is removed.
C14_DisconnectOwnership ==
    [][\A t \in Threads, d \in DisconnectArgs :
          UserDisconnect(t, d) =>
             IF d # 0 /\ d = connections[t] THEN Released(t, d) ELSE OwnershipError(t)]_vars

\* C14: as above, except that disconnect(None) called by a thread that has no
\* registry entry returns without an error and changes nothing.
C14_DisconnectOwnershipOrNone ==
    [][\A t \in Threads, d \in DisconnectArgs :
          UserDisconnect(t, d) =>
             IF d # 0 /\ d = connections[t] THEN Released(t, d)
             ELSE IF d = 0 /\ connections[t] = 0
                  THEN /\ workers'[t].pc = "user"
                       /\ conns' = conns /\ connections' = connections
                  ELSE OwnershipError(t)]_vars

C14_Witness ==
    /\ \E t \in Threads :
          /\ workers[t].call = "disconnected" /\ connections[t] = 0
          /\ conns[workers[t].conn].closed = 1
    /\ \E t \in Threads :
          /\ workers[t].cause = "ownership" /\ connections[t] = workers[t].conn
          /\ workers[t].conn # 0 /\ conns[workers[t].conn].closed = 0

\* Thread t is between acquiring its connection and the end of commit / rollback
\* in _runInteraction.
InInteraction(t) ==
    workers[t].kind = "interaction" /\ workers[t].pc \in {"body", "user", "finish"}

\* A step in which thread t calls cursor(), execute(), commit() or rollback()
\* on the connection it holds.
UsesConn(t) == Body(t) \/ UserReopen(t) \/ Finish(t)

\* C15: while an interaction runs in a thread with connection c, no other
\* thread calls cursor, execute, commit or rollback on c, and c is registered
\* for no other thread.
C15_InteractionExclusive ==
    /\ [][\A t1, t2 \in Threads :
            (t1 # t2 /\ InInteraction(t1) /\ UsesConn(t2))
                => workers[t2].conn # workers[t1].conn]_vars
    /\ [](\A t1, t2 \in Threads :
            (t1 # t2 /\ InInteraction(t1)) => connections[t2] # workers[t1].conn)

C15_Witness ==
    \E t1, t2 \in Threads :
        /\ t1 # t2 /\ InInteraction(t1) /\ workers[t1].pc = "user"
        /\ workers[t2].pc = "finish" /\ workers[t2].path = "commit"
        /\ workers[t2].conn # 0

\* ---------------------------------------- construction, every keyword pair
\* ConnectionPool(dbapiName, cp_min=..., cp_max=..., cp_openfun=...) for every
\* pair of keywords, each passed or not: the call is entered with the class
\* attributes min and max (lines 65-66) still in place, and __init__ runs.
MaxCp == 4
CpRange == {Absent} \cup (1..MaxCp)

ConstructInit ==
    /\ \E cp_min \in CpRange, cp_max \in CpRange, cp_openfun \in BOOLEAN :
          cfg = [min |-> DefaultMin, max |-> DefaultMax, openfun |-> cp_openfun,
                 cp_min |-> cp_min, cp_max |-> cp_max]
    /\ running = 0
    /\ shutdownID = "unset"
    /\ startID = "unset"
    /\ connections = [t \in Threads |-> 0]
    /\ hooks = 0
    /\ tp = [started |-> FALSE, joined |-> FALSE, starts |-> 0, q |-> <<>>]
    /\ units = [u \in Units |-> NewUnit]
    /\ workers = [t \in Threads |-> IdleWorker]
    /\ conns = [c \in Conns |-> NewConn]
    /\ ctl = "init"
    /\ hist = [err |-> "none", closeCalled |-> FALSE, closed |-> FALSE, closes |-> 0,
               again |-> FALSE]

\* __init__, lines 71-113
construct ==
    /\ ctl = "init"
    /\ LET made == Construct(cfg.cp_min, cfg.cp_max, cfg.openfun) IN
       cfg' = [min |-> made.min, max |-> made.max, openfun |-> made.openfun,
               cp_min |-> cfg.cp_min, cp_max |-> cfg.cp_max]
    /\ startID' = "trigger"
    /\ ctl' = "idle"
    /\ UNCHANGED <<running, shutdownID, connections, hooks, tp, units, workers,
                   conns, hist>>

\* The pool is constructed, then started and closed; no work is submitted.
ConstructNext ==
    \/ construct
    \/ start
    \/ close
    \/ finalClose
    \/ FinalCloseReturn

ConstructSpec == ConstructInit /\ [][ConstructNext]_vars

\* C16: for every cp_min and cp_max, passed or not and in either order,
\* __init__ completes and leaves min <= max, both taken from the two values
\* supplied.
C16_MinAtMostMax ==
    /\ ctl = "init" => ENABLED construct
    /\ ctl # "init" =>
          /\ cfg.min <= cfg.max
          /\ {cfg.min, cfg.max} \subseteq {SuppliedMin(cfg.cp_min), SuppliedMax(cfg.cp_max)}

C16_Witness ==
    /\ ctl = "idle" /\ running = 1
    /\ cfg.cp_min # Absent /\ cfg.cp_max # Absent /\ cfg.cp_min > cfg.cp_max
    /\ cfg.min = cfg.cp_max

OpenFailures == {"connect", "openfun"}

\* C17: a connect() by a thread without a registry entry tries to open a
\* connection, whatever happened before; when dbapi.connect or openfun raises,
\* the unit of work fails with that exception and the registry is unchanged,
\* so the thread's next unit tries to open again.
C17_FailedOpenRetried ==
    /\ [][\A t \in Threads :
            (Connect(t) /\ connections[t] = 0) =>
               \/ /\ workers'[t].pc = "post"
                  /\ workers'[t].cause \in OpenFailures
                  /\ workers'[t].res = <<"err", workers'[t].cause>>
                  /\ connections' = connections
               \/ /\ workers'[t].pc = "body"
                  /\ workers'[t].conn \in Opened' \ Opened
                  /\ connections' = [connections EXCEPT ![t] = workers'[t].conn]]_vars
    /\ [](\A t \in Threads :
            (AtPost(t) /\ workers[t].cause \in OpenFailures)
                => (connections[t] = 0 /\ workers[t].conn = 0 /\ workers[t].rollbacks = 0))

C17_Witness ==
    /\ cfg.max = 1
    /\ \E u \in Units : units[u].future = "err"
    /\ \E c \in Opened : conns[c].users = {} /\ conns[c].closed = 0
    /\ \E t \in Registered : workers[t].pc = "body" /\ workers[t].conn = connections[t]

\* Thread t runs a unit of work that has acquired a connection.
Holding(t) == workers[t].pc \in {"body", "user", "finish"} /\ workers[t].conn # 0

\* C18: finalClose() stops the thread pool before it closes any connection: its
\* close loop closes no connection held by a unit still running, and no thread
\* adds a registry entry once the loop has run.
C18_StopBeforeClose ==
    /\ [][FinalCloseReturn =>
            /\ tp.joined
            /\ \A t \in Threads :
                  Holding(t) => conns'[workers[t].conn] = conns[workers[t].conn]]_vars
    /\ [][\A t \in Threads :
            (connections[t] = 0 /\ connections'[t] # 0) => ~hist.closed]_vars

C18_Witness ==
    /\ ctl \in {"close", "finalClose"} /\ tp.joined
    /\ \E t \in Threads :
          /\ Holding(t) /\ connections[t] = workers[t].conn
          /\ conns[workers[t].conn].closed = 0
    /\ \E t \in Threads : workers[t].pc = "connect" /\ connections[t] = 0

\* C19: the Transaction never holds a null or closed cursor: the cursor is open
\* once the Transaction is constructed, while the user function runs, and after
\* every reopen(), one in which cursor() raises included.
C19_CursorAlwaysOpen ==
    /\ [][\A t \in Threads :
            ((Body(t) /\ workers'[t].pc = "user") \/ UserReopen(t))
                => workers'[t].cursor = "open"]_vars
    /\ [](\A t \in Threads : workers[t].pc = "user" => workers[t].cursor = "open")

\* C20: cursor(), execute(), commit() and rollback() are never called on a
\* connection on which close() has been called.
C20_NoUseAfterClose ==
    [][\A t \in Threads :
          (UsesConn(t) /\ workers[t].conn # 0) => conns[workers[t].conn].closed = 0]_vars
====
